---- MODULE Spec2Model ----
(***************************************************************************)
(* Bloom filter notebook (src/unnamed/part_000): the basic Bloom filter    *)
(* (init_B, add_key, check_key) and the counting Bloom filter              *)
(* (init_counting_B, update_counter, update_key, insert_key, delete_key,   *)
(* check_key_counting) over the hash family h.                             *)
(*                                                                         *)
(* A bitarray is a sequence of 0/1; Python's 0-based half-open slices      *)
(* B[a:b] are the operators Slice and SetSlice.                            *)
(*                                                                         *)
(* Flajolet-Martin distinct counting (Data Stream Mining (Distinct         *)
(* Counting).ipynb: h, get_r, the ingest loop, the shuffled mean of        *)
(* medians), and the sampling cells of Dimensionality Reduction (1 IRIS    *)
(* Dataset).ipynb: sampling by key value (h, a, b, SAMPLE) and reservoir   *)
(* sampling (handle_new_item, RESERVOIR).  Each notebook has its own       *)
(* specification; the variables of the other notebooks stay idle in it.    *)
(***************************************************************************)
EXTENDS Integers, Sequences, FiniteSets, TLC

VARIABLES
  num_digits,          \* notebook global: the array has 10^num_digits buckets
  num_hash_functions,  \* notebook global
  bits_per_counter,    \* notebook global, passed to insert_key/delete_key and
                       \* read (as a global) by check_key_counting
  B,                   \* the counting filter's bitarray
  B_basic,             \* the basic filter's bitarray (B in the basic cells)
  added,               \* history: the keys passed to add_key so far
  B_before,            \* history: B when the last insert_key/delete_key began
  last,                \* history: the last call [op, key, err, nr]
  afterInsert,         \* history: the call before it was a successful
                       \* insert_key of the same key
  net,                 \* history: per key, successful inserts - successful deletes
  residue,             \* history: per position, the updates left by calls that raised
  deletesOfPresent,    \* history: every delete_key so far was of a key with net > 0
  run,                 \* history: the key, when every call so far was an
                       \* insert_key of this one key (NoKey before the first
                       \* call, Mixed otherwise)
  nops,                \* history: number of insert_key/delete_key calls so far
  \* --- Data Stream Mining (Distinct Counting).ipynb, Flajolet-Martin cells
  num_samples_per_group, \* notebook global
  num_groups,          \* notebook global
  num_hashes,          \* notebook global: num_samples_per_group * num_groups
  Rs,                  \* the trackers; Rs[i] of the notebook is Rs[i+1] here
  estimates,           \* np.power(2, Rs) after np.random.shuffle, <<>> before
  final_estimate,      \* np.mean(medians) as a fraction [num, den], NoEstimate before
  fm_pc,               \* the cell the notebook is in: "ingest", "raised" (the
                       \* ingest cell stopped with an exception), "shuffled",
                       \* "estimated", or "idle" in the other specifications
  ips,                 \* history: the keys read from the file so far
  Rs_before,           \* history: Rs when the last line began
  last_ingest,         \* history: the last line [ip, err, i, dup]: its key, what
                       \* it raised, the hash function it raised at, and
                       \* whether the key had been read before
  hadDup,              \* history: some line so far repeated an earlier key
  nlines,              \* history: number of lines read so far
  \* --- sampling cells: sampling by key value
  sample_a,            \* notebook global a
  sample_b,            \* notebook global b
  SAMPLE,              \* the sample, a list of keys
  records,             \* history: the lines read so far, each [ip, ts]
  decisions,           \* history: per line read, whether it was appended
  \* --- sampling cells: reservoir sampling
  B_reservoir,         \* notebook global B, the size of the reservoir
  RESERVOIR,           \* the reservoir; RESERVOIR[p] of the notebook is
                       \* RESERVOIR[p+1] here
  stream,              \* history: the items handled so far; the next item has
                       \* enumerate index t = Len(stream)
  slots,               \* history: per slot, the number (1, 2, ...) of the item
                       \* it holds, 0 for the placeholder
  last_item,           \* history: the last call [t, range, pos, msg, before]
                       \* of handle_new_item: its t, the set its random index
                       \* was drawn from, the index drawn, what it did, and
                       \* slots when it began
  outcomes,            \* history: for every value of slots that some sequence
                       \* of random draws gives for this stream, the number of
                       \* sequences that give it
  \* --- calls of the hash function h
  h_last,              \* history: the last call [s, nd, nr, v] of h and its value
  h_prev,              \* history: the call of h before it
  \* --- a counting filter whose width is not the notebook global
  counter_bits,        \* the bits_per_counter argument passed to
                       \* init_counting_B, insert_key and delete_key
  answer,              \* history: the last check_key_counting call [key,
                       \* result] since the last update, result being "True",
                       \* "False" or the exception raised
  nupdates,            \* history: number of insert_key/delete_key calls
  \* --- two callers of insert_key/delete_key on one counting filter
  exclusive,           \* each whole call runs in one critical section
  lock,                \* the caller inside its critical section, 0 when none
  callers,             \* per caller [pc, op, key, nr, counter]: where it is in
                       \* update_key, its call, the hash function it is at and
                       \* the counter it has read
  applied,             \* history: per position, increments written back
                       \* less decrements written back
  ncalls               \* history: number of calls begun

bloomVars == <<num_digits, num_hash_functions, bits_per_counter, B, B_basic, added,
               B_before, last, afterInsert, net, residue, deletesOfPresent, run, nops>>

fmVars == <<num_samples_per_group, num_groups, num_hashes, Rs, estimates,
            final_estimate, fm_pc, ips, Rs_before, last_ingest, hadDup, nlines>>

samplerVars == <<sample_a, sample_b, SAMPLE, records, decisions>>

reservoirVars == <<B_reservoir, RESERVOIR, stream, slots, last_item, outcomes>>

hashVars == <<h_last, h_prev>>

widthVars == <<counter_bits, answer, nupdates>>

concVars == <<exclusive, lock, callers, applied, ncalls>>

extraVars == <<hashVars, widthVars, concVars>>

vars == <<bloomVars, fmVars, samplerVars, reservoirVars, extraVars>>

\* ---------------------------------------------------------------- bounds
\* num_hash_functions ranges over 1..MaxHash
MaxHash == 3
\* bits_per_counter ranges over 1..MaxBits
MaxBits == 3
\* at most MaxOps insert_key/delete_key calls are followed
MaxOps == 8

\* The configurations of num_digits the notebook uses (cells at lines 469, 545).
NumDigits == {1, 2}

\* The keys fed to the counting filter: the empty string (every hash function
\* gives one position), a key of the notebook's S, and "ec" (its hash
\* functions 1 and 2 collide for num_digits = 1).
Keys == {"", "bob@yahoo.com", "ec"}

\* The keys fed to the basic filter: the notebook's S, its test key, and "".
BasicKeys == {"alice@gmail.com", "bob@yahoo.com", "chris@comp.nus.edu.sg",
              "dave@outlook.com", "erin@hotmail.com", "Hello World", ""}

NoKey == "<none>"
Mixed == "<mixed>"

\* ------------------------------------------------------------- hash family
\* Python's s*nr
RECURSIVE Repeat(_, _)
Repeat(s, nr) == IF nr <= 0 THEN "" ELSE s \o Repeat(s, nr - 1)

\* int(hashlib.sha1(str.encode("utf-8")).hexdigest(), 16) % 10^8, tabulated for
\* the strings the model hashes (the digest itself has 160 bits; num_digits is
\* at most 8 in the notebooks).
Sha1Low(str) ==
  CASE str = "" -> 82391305
    [] str = "ec" -> 82357002
    [] str = "ecec" -> 19018382
    [] str = "ececec" -> 95214811
    [] str = "ecececec" -> 4735620
    [] str = "ececececec" -> 99895289
    [] str = "bob@yahoo.com" -> 34739842
    [] str = "bob@yahoo.combob@yahoo.com" -> 94653915
    [] str = "bob@yahoo.combob@yahoo.combob@yahoo.com" -> 12850599
    [] str = "bob@yahoo.combob@yahoo.combob@yahoo.combob@yahoo.com" -> 94656053
    [] str = "bob@yahoo.combob@yahoo.combob@yahoo.combob@yahoo.combob@yahoo.com" -> 73102861
    [] str = "a" -> 71636152
    [] str = "aa" -> 18303287
    [] str = "aaa" -> 12723221
    [] str = "aaaa" -> 45744249
    [] str = "aaaaa" -> 87363436
    [] str = "aaaaaa" -> 48691643
    [] str = "aaaaaaaa" -> 44054712
    [] str = "aaaaaaaaaa" -> 9884458
    [] str = "Hello World" -> 31397072
    [] str = "alice@gmail.com" -> 58027916
    [] str = "dave@outlook.com" -> 199260
    [] str = "erin@hotmail.com" -> 16457517
    [] str = "chris@comp.nus.edu.sg" -> 9971466
    [] str = "Hello WorldHello World" -> 28841796
    [] str = "alice@gmail.comalice@gmail.com" -> 51025643
    [] str = "dave@outlook.comdave@outlook.com" -> 15760142
    [] str = "erin@hotmail.comerin@hotmail.com" -> 75253133
    [] str = "Hello WorldHello WorldHello World" -> 64800099
    [] str = "chris@comp.nus.edu.sgchris@comp.nus.edu.sg" -> 87915626
    [] str = "Hello WorldHello WorldHello WorldHello World" -> 58082844
    [] str = "alice@gmail.comalice@gmail.comalice@gmail.com" -> 35875192
    [] str = "dave@outlook.comdave@outlook.comdave@outlook.com" -> 39664634
    [] str = "erin@hotmail.comerin@hotmail.comerin@hotmail.com" -> 53427660
    [] str = "Hello WorldHello WorldHello WorldHello WorldHello World" -> 70610365
    [] str = "alice@gmail.comalice@gmail.comalice@gmail.comalice@gmail.com" -> 95933394
    [] str = "chris@comp.nus.edu.sgchris@comp.nus.edu.sgchris@comp.nus.edu.sg" -> 20476499
    [] str = "dave@outlook.comdave@outlook.comdave@outlook.comdave@outlook.com" -> 3493008
    [] str = "erin@hotmail.comerin@hotmail.comerin@hotmail.comerin@hotmail.com" -> 34161484
    [] str = "alice@gmail.comalice@gmail.comalice@gmail.comalice@gmail.comalice@gmail.com" -> 39043905
    [] str = "dave@outlook.comdave@outlook.comdave@outlook.comdave@outlook.comdave@outlook.com" -> 4280900
    [] str = "erin@hotmail.comerin@hotmail.comerin@hotmail.comerin@hotmail.comerin@hotmail.com" -> 95933182
    [] str = "chris@comp.nus.edu.sgchris@comp.nus.edu.sgchris@comp.nus.edu.sgchris@comp.nus.edu.sg" -> 94809321
    [] str = "chris@comp.nus.edu.sgchris@comp.nus.edu.sgchris@comp.nus.edu.sgchris@comp.nus.edu.sgchris@comp.nus.edu.sg" -> 66311700
    [] str = "10.0.0.1" -> 78375739
    [] str = "10.0.0.110.0.0.1" -> 25387790
    [] str = "10.0.0.110.0.0.110.0.0.1" -> 6851754
    [] str = "10.0.0.110.0.0.110.0.0.110.0.0.1" -> 79084785
    [] str = "10.0.0.110.0.0.110.0.0.110.0.0.110.0.0.1" -> 34461457
    [] str = "10.0.0.110.0.0.110.0.0.110.0.0.110.0.0.110.0.0.1" -> 11041060
    [] str = "10.0.0.110.0.0.110.0.0.110.0.0.110.0.0.110.0.0.110.0.0.1" -> 36087405
    [] str = "192.168.0.1" -> 64562706
    [] str = "192.168.0.1192.168.0.1" -> 73946080
    [] str = "192.168.0.1192.168.0.1192.168.0.1" -> 40897759
    [] str = "192.168.0.1192.168.0.1192.168.0.1192.168.0.1" -> 48154218
    [] str = "192.168.0.1192.168.0.1192.168.0.1192.168.0.1192.168.0.1" -> 94654252
    [] str = "192.168.0.1192.168.0.1192.168.0.1192.168.0.1192.168.0.1192.168.0.1" -> 83464391
    [] str = "192.168.0.1192.168.0.1192.168.0.1192.168.0.1192.168.0.1192.168.0.1192.168.0.1" -> 61015457
    [] str = "8.8.8.8" -> 88745761
    [] str = "8.8.8.88.8.8.8" -> 82292946
    [] str = "8.8.8.88.8.8.88.8.8.8" -> 95154464
    [] str = "8.8.8.88.8.8.88.8.8.88.8.8.8" -> 74967106
    [] str = "8.8.8.88.8.8.88.8.8.88.8.8.88.8.8.8" -> 3161775
    [] str = "8.8.8.88.8.8.88.8.8.88.8.8.88.8.8.88.8.8.8" -> 38112647
    [] str = "8.8.8.88.8.8.88.8.8.88.8.8.88.8.8.88.8.8.88.8.8.8" -> 81842572
    [] str = "3.118.195.14" -> 0
    [] str = "3.118.195.143.118.195.14" -> 89151118
    [] str = "3.118.195.143.118.195.143.118.195.14" -> 95156962
    [] str = "3.118.195.143.118.195.143.118.195.143.118.195.14" -> 8319239
    [] str = "3.118.195.143.118.195.143.118.195.143.118.195.143.118.195.14" -> 19851670
    [] str = "3.118.195.143.118.195.143.118.195.143.118.195.143.118.195.143.118.195.14" -> 90023241
    [] str = "3.118.195.143.118.195.143.118.195.143.118.195.143.118.195.143.118.195.143.118.195.14" -> 19549338
    [] str = "1.35.236.162" -> 73094017
    [] str = "1.35.236.1621.35.236.162" -> 0
    [] str = "1.35.236.1621.35.236.1621.35.236.162" -> 90884445
    [] str = "1.35.236.1621.35.236.1621.35.236.1621.35.236.162" -> 33703488
    [] str = "1.35.236.1621.35.236.1621.35.236.1621.35.236.1621.35.236.162" -> 74876028
    [] str = "1.35.236.1621.35.236.1621.35.236.1621.35.236.1621.35.236.1621.35.236.162" -> 48220026
    [] str = "1.35.236.1621.35.236.1621.35.236.1621.35.236.1621.35.236.1621.35.236.1621.35.236.162" -> 47919263
    [] str = "3.118.195.14,807256800" -> 35886046
    [] str = "3.118.195.14,807256801" -> 34865607
    [] str = "8.8.8.8,807256800" -> 68097938
    [] str = "8.8.8.8,807256801" -> 18708600
    [] str = "192.168.0.1,807256800" -> 69199508
    [] str = "192.168.0.1,807256801" -> 18246660

\* h hashing the key once and adding nr to the digest
h_salted(s, nd, nr) == (Sha1Low(s) + nr) % (10 ^ nd)

\* h reducing modulo 10^num_digits + 1
h_inclusive(s, nd, nr) == Sha1Low(Repeat(s, nr)) % (10 ^ nd + 1)

\* def h(s, num_digits=1, nr=1)
h(s, nd, nr) == Sha1Low(Repeat(s, nr)) % (10 ^ nd)

\* ---------------------------------------------------------------- bitarray
\* B[a:b] (0-based, half-open, clamped to the array as Python does)
Slice(b, from, to) ==
  LET hi == IF to < Len(b) THEN to ELSE Len(b)
  IN  IF from >= hi THEN <<>> ELSE SubSeq(b, from + 1, hi)

\* B[a:b] = bits (the array changes length when Len(bits) # b - a)
SetSlice(b, from, to, bits) ==
  LET lo == IF from < Len(b) THEN from ELSE Len(b)
      hi == IF to < lo THEN lo ELSE IF to < Len(b) THEN to ELSE Len(b)
  IN  SubSeq(b, 1, lo) \o bits \o SubSeq(b, hi + 1, Len(b))

\* bitarray.util.ba2int: the big-endian value of the bits
RECURSIVE ba2int(_)
ba2int(bits) ==
  IF Len(bits) = 0 THEN 0
  ELSE 2 * ba2int(SubSeq(bits, 1, Len(bits) - 1)) + bits[Len(bits)]

\* the binary digits of n >= 0, most significant first ("0" for 0)
RECURSIVE Binary(_)
Binary(n) == IF n < 2 THEN <<n>> ELSE Binary(n \div 2) \o <<n % 2>>

\* format(int_val, 'b'): the leading zeros are lost
format_unpadded(int_val, width) == Binary(int_val)

\* bitarray(format(int_val, '0{}b'.format(width))): at least width digits
format(int_val, width) ==
  LET digits == Binary(int_val)
  IN  [i \in 1..(width - Len(digits)) |-> 0] \o digits

\* ------------------------------------------------------------ basic filter
\* init_B without B.setall(False): bitarray(n) is not zeroed
init_B_unset(num_buckets) == [i \in 1..num_buckets |-> 1]

\* def init_B(num_buckets)
init_B(num_buckets) == [i \in 1..num_buckets |-> 0]

\* def add_key(s, B, num_digits, num_hash_functions): the loop from nr on
RECURSIVE add_key_from(_, _, _, _, _)
add_key_from(nr, s, b, nd, nhf) ==
  IF nr > nhf THEN b
  ELSE LET pos == h(s, nd, nr)
       IN  add_key_from(nr + 1, s, [b EXCEPT ![pos + 1] = 1], nd, nhf)

\* add_key looping over range(1, num_hash_functions)
add_key_skips_last(s, b, nd, nhf) == add_key_from(1, s, b, nd, nhf - 1)

\* add_key flipping the bit (B[pos] = not B[pos]) instead of setting it
RECURSIVE add_key_toggle_from(_, _, _, _, _)
add_key_toggle_from(nr, s, b, nd, nhf) ==
  IF nr > nhf THEN b
  ELSE LET pos == h(s, nd, nr)
       IN  add_key_toggle_from(nr + 1, s, [b EXCEPT ![pos + 1] = 1 - @], nd, nhf)

add_key_toggle(s, b, nd, nhf) == add_key_toggle_from(1, s, b, nd, nhf)

add_key(s, b, nd, nhf) == add_key_from(1, s, b, nd, nhf)

\* def check_key(s, B, num_digits, num_hash_functions): cnt after the loop
RECURSIVE check_key_cnt(_, _, _, _, _)
check_key_cnt(nr, s, b, nd, nhf) ==
  IF nr > nhf THEN 0
  ELSE b[h(s, nd, nr) + 1] + check_key_cnt(nr + 1, s, b, nd, nhf)

\* check_key returning True when cnt > 0
check_key_any(s, b, nd, nhf) == check_key_cnt(1, s, b, nd, nhf) > 0

check_key(s, b, nd, nhf) == check_key_cnt(1, s, b, nd, nhf) = nhf

\* --------------------------------------------------------- counting filter
\* def init_counting_B(num_buckets, bits_per_counter)
init_counting_B(num_buckets, bits) == [i \in 1..(num_buckets * bits) |-> 0]

\* update_counter without the overflow check
update_counter_unchecked(counter, bits, update) ==
  LET int_val == IF update = "inc" THEN ba2int(counter) + 1
                                   ELSE ba2int(counter) - 1
  IN  IF int_val < 0 THEN [err |-> "underflow", counter |-> counter]
      ELSE [err |-> "none", counter |-> format(int_val, bits)]

\* update_counter testing int_val > 2**bits_per_counter
update_counter_late(counter, bits, update) ==
  LET int_val == IF update = "inc" THEN ba2int(counter) + 1
                                   ELSE ba2int(counter) - 1
  IN  IF int_val < 0 THEN [err |-> "underflow", counter |-> counter]
      ELSE IF int_val > 2 ^ bits THEN [err |-> "overflow", counter |-> counter]
      ELSE [err |-> "none", counter |-> format(int_val, bits)]

\* update_counter wrapping below 0 instead of raising
update_counter_wraps(counter, bits, update) ==
  LET int_val == IF update = "inc" THEN ba2int(counter) + 1
                                   ELSE ba2int(counter) - 1
  IN  IF int_val >= 2 ^ bits THEN [err |-> "overflow", counter |-> counter]
      ELSE [err |-> "none", counter |-> format(int_val % (2 ^ bits), bits)]

\* def update_counter(counter, bits_per_counter, update='inc'): the new counter,
\* or the exception raised
update_counter(counter, bits, update) ==
  LET int_val == IF update = "inc" THEN ba2int(counter) + 1
                                   ELSE ba2int(counter) - 1
  IN  IF int_val < 0 THEN [err |-> "underflow", counter |-> counter]
      ELSE IF int_val >= 2 ^ bits THEN [err |-> "overflow", counter |-> counter]
      ELSE [err |-> "none", counter |-> format(int_val, bits)]

\* def update_key(...): the loop from nr on. An exception of update_counter
\* leaves the loop at once: the counters already written stay written.
\* Result: the array, the exception, and the nr at which it was raised.
RECURSIVE update_key_from(_, _, _, _, _, _, _)
update_key_from(nr, s, b, nd, nhf, bits, update) ==
  IF nr > nhf THEN [B |-> b, err |-> "none", nr |-> 0]
  ELSE LET pos == h(s, nd, nr)
           counter == Slice(b, pos * bits, pos * bits + bits)
           r == IF update = "insert" THEN update_counter(counter, bits, "inc")
                                     ELSE update_counter(counter, bits, "dec")
       IN  IF r.err # "none" THEN [B |-> b, err |-> r.err, nr |-> nr]
           ELSE update_key_from(nr + 1, s,
                                SetSlice(b, pos * bits, pos * bits + bits, r.counter),
                                nd, nhf, bits, update)

update_key(s, b, nd, nhf, bits, update) ==
  update_key_from(1, s, b, nd, nhf, bits, update)

\* def insert_key(s, B, num_digits, num_hash_functions, bits_per_counter)
insert_key(s, b, nd, nhf, bits) == update_key(s, b, nd, nhf, bits, "insert")

\* delete_key updating only the counter of the last hash function
delete_key_last_only(s, b, nd, nhf, bits) ==
  update_key_from(nhf, s, b, nd, nhf, bits, "delete")

\* def delete_key(s, B, num_digits, num_hash_functions, bits_per_counter)
delete_key(s, b, nd, nhf, bits) == update_key(s, b, nd, nhf, bits, "delete")

\* def check_key_counting(s, B, num_digits, num_hash_functions): cnt after the
\* loop; the counter width is the global bits_per_counter
RECURSIVE check_key_counting_cnt(_, _, _, _, _)
check_key_counting_cnt(nr, s, b, nd, nhf) ==
  IF nr > nhf THEN 0
  ELSE LET pos == h(s, nd, nr)
           counter == Slice(b, pos * bits_per_counter,
                            pos * bits_per_counter + bits_per_counter)
       IN  (IF ba2int(counter) > 0 THEN 1 ELSE 0)
           + check_key_counting_cnt(nr + 1, s, b, nd, nhf)

\* check_key_counting testing ba2int(counter) > 1
RECURSIVE check_key_counting_cnt_gt1(_, _, _, _, _)
check_key_counting_cnt_gt1(nr, s, b, nd, nhf) ==
  IF nr > nhf THEN 0
  ELSE LET pos == h(s, nd, nr)
           counter == Slice(b, pos * bits_per_counter,
                            pos * bits_per_counter + bits_per_counter)
       IN  (IF ba2int(counter) > 1 THEN 1 ELSE 0)
           + check_key_counting_cnt_gt1(nr + 1, s, b, nd, nhf)

check_key_counting_gt1(s, b, nd, nhf) ==
  check_key_counting_cnt_gt1(1, s, b, nd, nhf) = nhf

check_key_counting(s, b, nd, nhf) == check_key_counting_cnt(1, s, b, nd, nhf) = nhf

\* ------------------------------------------------------------ state machine
num_buckets == 10 ^ num_digits

NoCall == [op |-> "none", key |-> NoKey, err |-> "none", nr |-> 0]

\* The number of hash functions among 1..upto that map s to position p
Mult(s, p, upto) == Cardinality({n \in 1..upto : h(s, num_digits, n) = p})

\* The history after a call op(s) with result r of update_key
Record(op, s, r) ==
  LET d == IF op = "insert" THEN 1 ELSE -1
  IN  /\ B_before' = B
      /\ last' = [op |-> op, key |-> s, err |-> r.err, nr |-> r.nr]
      /\ afterInsert' = (last.op = "insert" /\ last.key = s /\ last.err = "none")
      /\ net' = IF r.err = "none" THEN [net EXCEPT ![s] = @ + d] ELSE net
      /\ residue' = IF r.err = "none" THEN residue
                    ELSE [p \in DOMAIN residue |->
                            residue[p] + d * Mult(s, p, r.nr - 1)]
      /\ deletesOfPresent' = (deletesOfPresent /\ (op = "delete" => net[s] > 0))
      /\ run' = IF op = "insert" /\ run \in {NoKey, s} THEN s ELSE Mixed
      /\ nops' = nops + 1

\* The Flajolet-Martin cells have not run
NoEstimate == [num |-> 0, den |-> 1]

NoLine == [ip |-> NoKey, err |-> "none", i |-> 0, dup |-> FALSE]

FMIdle ==
  /\ num_samples_per_group = 0
  /\ num_groups = 0
  /\ num_hashes = 0
  /\ Rs = <<>>
  /\ estimates = <<>>
  /\ final_estimate = NoEstimate
  /\ fm_pc = "idle"
  /\ ips = {}
  /\ Rs_before = <<>>
  /\ last_ingest = NoLine
  /\ hadDup = FALSE
  /\ nlines = 0

\* h has not been called
NoHash == [s |-> NoKey, nd |-> 0, nr |-> 0, v |-> -1]

HashIdle == h_last = NoHash /\ h_prev = NoHash

\* check_key_counting has not been called since the last update
NoAnswer == [key |-> NoKey, result |-> "none"]

WidthIdle == counter_bits = 0 /\ answer = NoAnswer /\ nupdates = 0

\* No caller is in update_key
ConcIdle ==
  /\ exclusive = TRUE
  /\ lock = 0
  /\ callers = <<>>
  /\ applied = <<>>
  /\ ncalls = 0

ExtraIdle == HashIdle /\ WidthIdle /\ ConcIdle

\* The sampling cells have not run
SamplerIdle ==
  /\ sample_a = 0
  /\ sample_b = 0
  /\ SAMPLE = <<>>
  /\ records = <<>>
  /\ decisions = <<>>

NoItem == [t |-> -1, range |-> {}, pos |-> -1, msg |-> "none", before |-> <<>>]

ReservoirIdle ==
  /\ B_reservoir = 0
  /\ RESERVOIR = <<>>
  /\ stream = <<>>
  /\ slots = <<>>
  /\ last_item = NoItem
  /\ outcomes = <<>>

\* The Bloom filter cells have not run
BloomIdle ==
  /\ num_digits = 0
  /\ num_hash_functions = 0
  /\ bits_per_counter = 0
  /\ B = <<>>
  /\ B_basic = <<>>
  /\ added = {}
  /\ B_before = <<>>
  /\ last = NoCall
  /\ afterInsert = FALSE
  /\ net = <<>>
  /\ residue = <<>>
  /\ deletesOfPresent = TRUE
  /\ run = NoKey
  /\ nops = 0

\* The notebook cell that sets the globals and builds the counting filter
Init ==
  /\ num_digits \in NumDigits
  /\ num_hash_functions \in 1..MaxHash
  /\ bits_per_counter \in 1..MaxBits
  /\ B = init_counting_B(num_buckets, bits_per_counter)
  /\ B_basic = <<>>
  /\ added = {}
  /\ B_before = B
  /\ last = NoCall
  /\ afterInsert = FALSE
  /\ net = [k \in Keys |-> 0]
  /\ residue = [p \in 0..(num_buckets - 1) |-> 0]
  /\ deletesOfPresent = TRUE
  /\ run = NoKey
  /\ nops = 0
  /\ FMIdle
  /\ SamplerIdle
  /\ ReservoirIdle
  /\ ExtraIdle

\* try: insert_key(s, B, num_digits, num_hash_functions, bits_per_counter)
\* except Exception as e: print(e)
InsertKey(s) ==
  /\ nops < MaxOps
  /\ LET r == insert_key(s, B, num_digits, num_hash_functions, bits_per_counter)
     IN  B' = r.B /\ Record("insert", s, r)
  /\ UNCHANGED <<num_digits, num_hash_functions, bits_per_counter, B_basic, added>>
  /\ UNCHANGED <<fmVars, samplerVars, reservoirVars, extraVars>>

\* try: delete_key(s, B, num_digits, num_hash_functions, bits_per_counter)
\* except Exception as e: print(e)
DeleteKey(s) ==
  /\ nops < MaxOps
  /\ LET r == delete_key(s, B, num_digits, num_hash_functions, bits_per_counter)
     IN  B' = r.B /\ Record("delete", s, r)
  /\ UNCHANGED <<num_digits, num_hash_functions, bits_per_counter, B_basic, added>>
  /\ UNCHANGED <<fmVars, samplerVars, reservoirVars, extraVars>>

Next == \E s \in Keys : InsertKey(s) \/ DeleteKey(s)

Spec == Init /\ [][Next]_vars

\* The notebook cell that sets the globals and builds the basic filter
InitBasic ==
  /\ num_digits \in NumDigits
  /\ num_hash_functions \in 1..MaxHash
  /\ bits_per_counter = 1
  /\ B = <<>>
  /\ B_basic = init_B(num_buckets)
  /\ added = {}
  /\ B_before = <<>>
  /\ last = NoCall
  /\ afterInsert = FALSE
  /\ net = [k \in Keys |-> 0]
  /\ residue = <<>>
  /\ deletesOfPresent = TRUE
  /\ run = NoKey
  /\ nops = 0
  /\ FMIdle
  /\ SamplerIdle
  /\ ReservoirIdle
  /\ ExtraIdle

\* add_key(s, B, num_digits, num_hash_functions), as fill_B calls it per key
AddKey(s) ==
  /\ B_basic' = add_key(s, B_basic, num_digits, num_hash_functions)
  /\ added' = added \cup {s}
  /\ last' = [op |-> "add", key |-> s, err |-> "none", nr |-> 0]
  /\ UNCHANGED <<num_digits, num_hash_functions, bits_per_counter, B, B_before,
                 afterInsert, net, residue, deletesOfPresent, run, nops>>
  /\ UNCHANGED <<fmVars, samplerVars, reservoirVars, extraVars>>

NextBasic == \E s \in BasicKeys : AddKey(s)

SpecBasic == InitBasic /\ [][NextBasic]_vars

\* The value of the counter at position p of a counting array b
Counter(b, p) ==
  ba2int(Slice(b, p * bits_per_counter, p * bits_per_counter + bits_per_counter))

\* ------------------------------------ both filters filled with the same keys
\* The cells that build a basic and a counting filter for the same num_digits
\* and num_hash_functions
InitBoth ==
  /\ num_digits \in NumDigits
  /\ num_hash_functions \in 1..MaxHash
  /\ bits_per_counter \in 1..MaxBits
  /\ B = init_counting_B(num_buckets, bits_per_counter)
  /\ B_basic = init_B(num_buckets)
  /\ added = {}
  /\ B_before = B
  /\ last = NoCall
  /\ afterInsert = FALSE
  /\ net = [k \in Keys |-> 0]
  /\ residue = [p \in 0..(num_buckets - 1) |-> 0]
  /\ deletesOfPresent = TRUE
  /\ run = NoKey
  /\ nops = 0
  /\ FMIdle
  /\ SamplerIdle
  /\ ReservoirIdle
  /\ ExtraIdle

\* One key of S: add_key into the basic filter (fill_B) and insert_key into
\* the counting filter ("for s in S")
InsertBoth(s) ==
  /\ nops < MaxOps
  /\ B_basic' = add_key(s, B_basic, num_digits, num_hash_functions)
  /\ added' = added \cup {s}
  /\ LET r == insert_key(s, B, num_digits, num_hash_functions, bits_per_counter)
     IN  B' = r.B /\ Record("insert", s, r)
  /\ UNCHANGED <<num_digits, num_hash_functions, bits_per_counter>>
  /\ UNCHANGED <<fmVars, samplerVars, reservoirVars, extraVars>>

NextBoth == \E s \in Keys : InsertBoth(s)

SpecBoth == InitBoth /\ [][NextBoth]_vars

\* ------------------------------------------- Flajolet-Martin distinct counting
\* Data Stream Mining (Distinct Counting).ipynb.  Its hash function h is the
\* one of the Bloom filter notebook.

\* The ingest loop calls h(ip, nr=i+1, num_digits=8)
FMDigits == 8

\* The ingest cell reads at most MaxLines lines
MaxLines == 4

\* num_samples_per_group and num_groups are drawn from these sets
SamplesPerGroup == {1, 2, 3}

NumGroups == {1, 2}

\* The keys of the stream: h("3.118.195.14", 8, 1) = 0 and
\* h("1.35.236.162", 8, 2) = 0
IPs == {"10.0.0.1", "192.168.0.1", "8.8.8.8", "3.118.195.14", "1.35.236.162"}

\* x & -x for x >= 0: the lowest set bit of x, and 0 for x = 0
RECURSIVE LowestBit(_)
LowestBit(x) ==
  IF x = 0 THEN 0 ELSE IF x % 2 = 1 THEN 1 ELSE 2 * LowestBit(x \div 2)

\* np.log2 of a power of two
RECURSIVE log2(_)
log2(p) == IF p = 1 THEN 0 ELSE 1 + log2(p \div 2)

\* def get_r(x): return int(np.log2(x&-x))
\* np.log2(0) is -inf, and int(-inf) raises OverflowError
get_r(x) ==
  LET low == LowestBit(x)
  IN  IF low = 0 THEN [err |-> "OverflowError", r |-> 0]
      ELSE [err |-> "none", r |-> log2(low)]

\* if r > Rs[i]: Rs[i] = r
track_last(r, cur) == r

track_add(r, cur) == cur + r

track_bump(r, cur) == IF r > cur THEN r ELSE cur + 1

track(r, cur) == IF r > cur THEN r ELSE cur

\* for i in range(num_hashes): ..., from hash function nr on; an exception
\* leaves the loop with the trackers written so far
RECURSIVE ingest_from(_, _, _, _)
ingest_from(nr, ip, rs, k) ==
  IF nr > k THEN [Rs |-> rs, err |-> "none", i |-> 0]
  ELSE LET g == get_r(h(ip, FMDigits, nr))
       IN  IF g.err # "none" THEN [Rs |-> rs, err |-> g.err, i |-> nr]
           ELSE ingest_from(nr + 1, ip, [rs EXCEPT ![nr] = track(g.r, @)], k)

\* The body of "for line in file" for one line
ingest(ip, rs, k) == ingest_from(1, ip, rs, k)

\* np.power(2, Rs)
np_power(base, rs) == [j \in 1..Len(rs) |-> base ^ rs[j]]

\* np.split(ary, n): n consecutive blocks of equal length
np_split(ary, n) ==
  LET len == Len(ary) \div n
  IN  [g \in 1..n |-> SubSeq(ary, (g - 1) * len + 1, g * len)]

\* np.median(a) as a fraction: the middle of the sorted values, the mean of
\* the two middle ones when their number is even
np_median_low(a) ==
  LET sorted == SortSeq(a, LAMBDA x, y : x < y)
  IN  [num |-> sorted[(Len(a) + 1) \div 2], den |-> 1]

np_median(a) ==
  LET sorted == SortSeq(a, LAMBDA x, y : x < y)
      n == Len(a)
  IN  IF n % 2 = 1 THEN [num |-> sorted[(n + 1) \div 2], den |-> 1]
      ELSE [num |-> sorted[n \div 2] + sorted[n \div 2 + 1], den |-> 2]

\* The sum of fractions of denominator 1 or 2, in halves
RECURSIVE SumHalves(_)
SumHalves(ms) ==
  IF ms = <<>> THEN 0
  ELSE Head(ms).num * (2 \div Head(ms).den) + SumHalves(Tail(ms))

\* np.sum(medians) in place of np.mean
np_sum(ms) == [num |-> SumHalves(ms), den |-> 2]

\* np.mean(medians) as a fraction
np_mean(ms) == [num |-> SumHalves(ms), den |-> 2 * Len(ms)]

\* medians = [np.median(split) for split in np.split(estimates, num_groups)]
\* final_estimate = np.mean(medians)
mean_of_medians(est, n) ==
  LET splits == np_split(est, n)
  IN  np_mean([g \in 1..n |-> np_median(splits[g])])

\* Equality of two fractions
SameValue(x, y) == x.num * y.den = y.num * x.den

\* The cell that sets num_samples_per_group, num_groups and num_hashes, and
\* Rs = np.array([0] * num_hashes)
InitFM ==
  /\ num_samples_per_group \in SamplesPerGroup
  /\ num_groups \in NumGroups
  /\ num_hashes = num_samples_per_group * num_groups
  /\ Rs = [j \in 1..num_hashes |-> 0]
  /\ estimates = <<>>
  /\ final_estimate = NoEstimate
  /\ fm_pc = "ingest"
  /\ ips = {}
  /\ Rs_before = Rs
  /\ last_ingest = NoLine
  /\ hadDup = FALSE
  /\ nlines = 0
  /\ BloomIdle
  /\ SamplerIdle
  /\ ReservoirIdle
  /\ ExtraIdle

\* One line of the file: ip = line.strip() and the loop over the hash functions
Ingest(ip) ==
  /\ fm_pc = "ingest"
  /\ nlines < MaxLines
  /\ LET res == ingest(ip, Rs, num_hashes)
     IN  /\ Rs' = res.Rs
         /\ fm_pc' = IF res.err = "none" THEN "ingest" ELSE "raised"
         /\ last_ingest' = [ip |-> ip, err |-> res.err, i |-> res.i,
                            dup |-> ip \in ips]
  /\ ips' = ips \cup {ip}
  /\ Rs_before' = Rs
  /\ hadDup' = (hadDup \/ ip \in ips)
  /\ nlines' = nlines + 1
  /\ UNCHANGED <<num_samples_per_group, num_groups, num_hashes, estimates,
                 final_estimate>>
  /\ UNCHANGED <<bloomVars, samplerVars, reservoirVars, extraVars>>

\* estimates = np.power(2, Rs); np.random.shuffle(estimates)
Shuffle ==
  /\ fm_pc = "ingest"
  /\ \E p \in Permutations(1..num_hashes) :
       estimates' = [j \in 1..num_hashes |-> np_power(2, Rs)[p[j]]]
  /\ fm_pc' = "shuffled"
  /\ UNCHANGED <<num_samples_per_group, num_groups, num_hashes, Rs,
                 final_estimate, ips, Rs_before, last_ingest, hadDup, nlines>>
  /\ UNCHANGED <<bloomVars, samplerVars, reservoirVars, extraVars>>

\* The cell that splits the estimates into groups and averages their medians
Estimate ==
  /\ fm_pc = "shuffled"
  /\ final_estimate' = mean_of_medians(estimates, num_groups)
  /\ fm_pc' = "estimated"
  /\ UNCHANGED <<num_samples_per_group, num_groups, num_hashes, Rs, estimates,
                 ips, Rs_before, last_ingest, hadDup, nlines>>
  /\ UNCHANGED <<bloomVars, samplerVars, reservoirVars, extraVars>>

NextFM == (\E ip \in IPs : Ingest(ip)) \/ Shuffle \/ Estimate

SpecFM == InitFM /\ [][NextFM]_vars

\* ------------------------------------------------- sampling by key value
\* Dimensionality Reduction (1 IRIS Dataset).ipynb, the sampling cells.

\* The cell reads at most MaxRecords lines
MaxRecords == 4

\* The values of b.  Sha1Low keeps the digest modulo 10^8, which gives the
\* digest modulo b for the divisors b of 10^8
Buckets == {2, 5, 10}

SamplerIPs == {"3.118.195.14", "8.8.8.8", "192.168.0.1"}

Timestamps == {"807256800", "807256801"}

\* The lines of the file, each after ip, ts = line.split(',')
Lines == [ip : SamplerIPs, ts : Timestamps]

\* def h(s, num_buckets) of the sampling cells
h_buckets(s, nb) == Sha1Low(s) % nb

\* if h(ip, b) < a: SAMPLE.append(ip)
sample_line_by_record(line, sample, a, b) ==
  IF h_buckets(line.ip \o "," \o line.ts, b) < a
  THEN [SAMPLE |-> Append(sample, line.ip), appended |-> TRUE]
  ELSE [SAMPLE |-> sample, appended |-> FALSE]

sample_line(line, sample, a, b) ==
  IF h_buckets(line.ip, b) < a
  THEN [SAMPLE |-> Append(sample, line.ip), appended |-> TRUE]
  ELSE [SAMPLE |-> sample, appended |-> FALSE]

\* a, b = ...; SAMPLE = []
InitSampler ==
  /\ sample_b \in Buckets
  /\ sample_a \in 1..sample_b
  /\ SAMPLE = <<>>
  /\ records = <<>>
  /\ decisions = <<>>
  /\ BloomIdle
  /\ FMIdle
  /\ ReservoirIdle
  /\ ExtraIdle

\* One iteration of "for line in f"
SampleLine(line) ==
  /\ Len(records) < MaxRecords
  /\ LET res == sample_line(line, SAMPLE, sample_a, sample_b)
     IN  /\ SAMPLE' = res.SAMPLE
         /\ decisions' = Append(decisions, res.appended)
  /\ records' = Append(records, line)
  /\ UNCHANGED <<sample_a, sample_b>>
  /\ UNCHANGED <<bloomVars, fmVars, reservoirVars, extraVars>>

NextSampler == \E line \in Lines : SampleLine(line)

SpecSampler == InitSampler /\ [][NextSampler]_vars

\* ------------------------------------------------------ reservoir sampling
\* Dimensionality Reduction (1 IRIS Dataset).ipynb, the reservoir cells.

\* B ranges over 1..MaxReservoir
MaxReservoir == 3

\* The driver loop handles at most MaxItems items
MaxItems == 5

\* The items of the stream: generate_stream makes letters, with repeats
Items == {"A", "B"}

\* The placeholder of RESERVOIR = ['_']*B
Placeholder == "_"

\* The values np.random.randint(low, high) can return: low <= value < high
randint(low, high) == low..(high - 1)

\* def handle_new_item(t, item), on the list reservoir, when the random index
\* it draws (past its first B calls) is pos
handle_new_item_grows(t, item, reservoir, pos) ==
  IF t < B_reservoir
  THEN [RESERVOIR |-> [reservoir EXCEPT ![t + 1] = item], msg |-> "added"]
  ELSE IF pos < Len(reservoir)
       THEN [RESERVOIR |-> [reservoir EXCEPT ![pos + 1] = item], msg |-> "replaced"]
       ELSE [RESERVOIR |-> Append(reservoir, item), msg |-> "discarded"]

\* handle_new_item writing RESERVOIR[t:] = [item]*(B-t) while filling
handle_new_item_fills(t, item, reservoir, pos) ==
  IF t < B_reservoir
  THEN [RESERVOIR |-> [p \in DOMAIN reservoir |->
                         IF p >= t + 1 THEN item ELSE reservoir[p]],
        msg |-> "added"]
  ELSE IF pos < Len(reservoir)
       THEN [RESERVOIR |-> [reservoir EXCEPT ![pos + 1] = item], msg |-> "replaced"]
       ELSE [RESERVOIR |-> reservoir, msg |-> "discarded"]

handle_new_item(t, item, reservoir, pos) ==
  IF t < B_reservoir
  THEN [RESERVOIR |-> [reservoir EXCEPT ![t + 1] = item], msg |-> "added"]
  ELSE IF pos < Len(reservoir)
       THEN [RESERVOIR |-> [reservoir EXCEPT ![pos + 1] = item], msg |-> "replaced"]
       ELSE [RESERVOIR |-> reservoir, msg |-> "discarded"]

\* The random indexes the call with this t can draw; none in its first B calls
Draws(t) == IF t < B_reservoir THEN {-1} ELSE randint(0, t)

RECURSIVE SumFn(_, _)
SumFn(f, S) ==
  IF S = {} THEN 0
  ELSE LET x == CHOOSE y \in S : TRUE IN f[x] + SumFn(f, S \ {x})

\* The outcomes after the call handle_new_item(t, .), from the outcomes out
\* before it: every outcome continues with every random index the call can draw
StepOutcomes(out, t) ==
  LET after(s, pos) == handle_new_item(t, t + 1, s, pos).RESERVOIR
      dom == {after(s, pos) : s \in DOMAIN out, pos \in Draws(t)}
  IN  [s2 \in dom |->
         SumFn([s \in DOMAIN out |->
                  out[s] * Cardinality({pos \in Draws(t) : after(s, pos) = s2})],
               DOMAIN out)]

\* B = ...; RESERVOIR = ['_']*B
InitReservoir ==
  /\ B_reservoir \in 1..MaxReservoir
  /\ RESERVOIR = [p \in 1..B_reservoir |-> Placeholder]
  /\ stream = <<>>
  /\ slots = [p \in 1..B_reservoir |-> 0]
  /\ last_item = NoItem
  /\ outcomes = [s \in {[p \in 1..B_reservoir |-> 0]} |-> 1]
  /\ BloomIdle
  /\ FMIdle
  /\ SamplerIdle
  /\ ExtraIdle

\* One iteration of "for t, item in enumerate(stream)"
HandleNewItem(item) ==
  LET t == Len(stream)
  IN  /\ t < MaxItems
      /\ \E pos \in Draws(t) :
           LET res == handle_new_item(t, item, RESERVOIR, pos)
           IN  /\ RESERVOIR' = res.RESERVOIR
               /\ slots' = handle_new_item(t, t + 1, slots, pos).RESERVOIR
               /\ last_item' = [t |-> t, range |-> Draws(t) \ {-1}, pos |-> pos,
                                msg |-> res.msg, before |-> slots]
      /\ stream' = Append(stream, item)
      /\ outcomes' = StepOutcomes(outcomes, t)
      /\ UNCHANGED B_reservoir
      /\ UNCHANGED <<bloomVars, fmVars, samplerVars, extraVars>>

NextReservoir == \E item \in Items : HandleNewItem(item)

SpecReservoir == InitReservoir /\ [][NextReservoir]_vars

\* ------------------------------------------------------ calls of the hash family
\* The keys and the values of num_digits h is called with
HashKeys == {"", "a", "aa", "bob@yahoo.com"}

HashDigits == {1, 2, 8}

InitHash ==
  /\ HashIdle
  /\ WidthIdle
  /\ ConcIdle
  /\ BloomIdle
  /\ FMIdle
  /\ SamplerIdle
  /\ ReservoirIdle

\* A call h(s, num_digits=nd, nr=nr)
CallH(s, nd, nr) ==
  /\ h_last' = [s |-> s, nd |-> nd, nr |-> nr, v |-> h(s, nd, nr)]
  /\ h_prev' = h_last
  /\ UNCHANGED <<bloomVars, fmVars, samplerVars, reservoirVars, widthVars, concVars>>

NextHash == \E s \in HashKeys, nd \in HashDigits, nr \in 1..MaxHash : CallH(s, nd, nr)

SpecHash == InitHash /\ [][NextHash]_vars

\* --------------------------- a counting filter of a width other than the global
\* insert_key and delete_key are called at most MaxUpdates times
MaxUpdates == 3

\* def check_key_counting(s, B, num_digits, num_hash_functions), from hash
\* function nr on with cnt positive counters so far: what it returns, or the
\* ValueError that ba2int raises for an empty slice.  The slice is cut with
\* the global bits_per_counter.
RECURSIVE check_key_counting_from(_, _, _, _, _, _)
check_key_counting_from(nr, s, b, nd, nhf, cnt) ==
  IF nr > nhf THEN (IF cnt = nhf THEN "True" ELSE "False")
  ELSE LET pos == h(s, nd, nr)
           counter == Slice(b, pos * bits_per_counter,
                            pos * bits_per_counter + bits_per_counter)
       IN  IF counter = <<>> THEN "ValueError"
           ELSE check_key_counting_from(nr + 1, s, b, nd, nhf,
                                        IF ba2int(counter) > 0 THEN cnt + 1 ELSE cnt)

check_key_counting_call(s, b, nd, nhf) == check_key_counting_from(1, s, b, nd, nhf, 0)

\* The global bits_per_counter is set, and a filter is built with
\* init_counting_B(num_buckets, c) for an argument c of the caller's choice
InitWidth ==
  /\ num_digits \in NumDigits
  /\ num_hash_functions \in 1..MaxHash
  /\ bits_per_counter \in 1..MaxBits
  /\ counter_bits \in 1..MaxBits
  /\ B = init_counting_B(num_buckets, counter_bits)
  /\ B_basic = <<>>
  /\ added = {}
  /\ B_before = B
  /\ last = NoCall
  /\ afterInsert = FALSE
  /\ net = [k \in Keys |-> 0]
  /\ residue = <<>>
  /\ deletesOfPresent = TRUE
  /\ run = NoKey
  /\ nops = 0
  /\ answer = NoAnswer
  /\ nupdates = 0
  /\ HashIdle
  /\ ConcIdle
  /\ FMIdle
  /\ SamplerIdle
  /\ ReservoirIdle

\* insert_key(s, B, num_digits, num_hash_functions, c) or
\* delete_key(s, B, num_digits, num_hash_functions, c)
UpdateWidth(op, s) ==
  /\ nupdates < MaxUpdates
  /\ LET r == IF op = "insert"
              THEN insert_key(s, B, num_digits, num_hash_functions, counter_bits)
              ELSE delete_key(s, B, num_digits, num_hash_functions, counter_bits)
     IN  /\ B' = r.B
         /\ last' = [op |-> op, key |-> s, err |-> r.err, nr |-> r.nr]
         /\ net' = IF r.err = "none"
                   THEN [net EXCEPT ![s] = IF op = "insert" THEN @ + 1 ELSE @ - 1]
                   ELSE net
  /\ B_before' = B
  /\ answer' = NoAnswer
  /\ nupdates' = nupdates + 1
  /\ UNCHANGED <<num_digits, num_hash_functions, bits_per_counter, B_basic, added,
                 afterInsert, residue, deletesOfPresent, run, nops, counter_bits>>
  /\ UNCHANGED <<fmVars, samplerVars, reservoirVars, hashVars, concVars>>

\* check_key_counting(s, B, num_digits, num_hash_functions)
CheckKeyCounting(s) ==
  /\ answer' = [key |-> s,
                result |-> check_key_counting_call(s, B, num_digits,
                                                   num_hash_functions)]
  /\ UNCHANGED <<bloomVars, counter_bits, nupdates>>
  /\ UNCHANGED <<fmVars, samplerVars, reservoirVars, hashVars, concVars>>

NextWidth ==
  \E s \in Keys :
    UpdateWidth("insert", s) \/ UpdateWidth("delete", s) \/ CheckKeyCounting(s)

SpecWidth == InitWidth /\ [][NextWidth]_vars

\* ------------------------------------ two callers on one counting filter
\* Two callers run insert_key/delete_key on the same B.  A caller's steps are
\* the statements of update_key's loop: reading the counter (lines 434-436)
\* and updating it and writing it back (lines 438-443).  With exclusive, a
\* caller enters a critical section when its call begins and leaves it when
\* the call returns or raises; without, the callers' steps interleave freely.
CallerIds == {1, 2}

\* The callers begin at most MaxCalls calls
MaxCalls == 3

ConcHash == {1, 2}

ConcBits == {1, 2}

Idle == [pc |-> "idle", op |-> "none", key |-> NoKey, nr |-> 0, counter |-> <<>>]

\* counter = B[pos*bits_per_counter:(pos*bits_per_counter+bits_per_counter)]
read_counter(b, pos, bits) == Slice(b, pos * bits, pos * bits + bits)

\* The write-back left out
write_counter_skipped(b, pos, bits, counter) == b

\* B[pos*bits_per_counter:(pos*bits_per_counter+bits_per_counter)] = counter
write_counter(b, pos, bits, counter) ==
  SetSlice(b, pos * bits, pos * bits + bits, counter)

InitConcurrent ==
  /\ num_digits = 1
  /\ num_hash_functions \in ConcHash
  /\ bits_per_counter \in ConcBits
  /\ B = init_counting_B(num_buckets, bits_per_counter)
  /\ B_basic = <<>>
  /\ added = {}
  /\ B_before = B
  /\ last = NoCall
  /\ afterInsert = FALSE
  /\ net = <<>>
  /\ residue = <<>>
  /\ deletesOfPresent = TRUE
  /\ run = NoKey
  /\ nops = 0
  /\ exclusive \in BOOLEAN
  /\ lock = 0
  /\ callers = [c \in CallerIds |-> Idle]
  /\ applied = [p \in 0..(num_buckets - 1) |-> 0]
  /\ ncalls = 0
  /\ HashIdle
  /\ WidthIdle
  /\ FMIdle
  /\ SamplerIdle
  /\ ReservoirIdle

\* The caller may run: it is the one in the critical section, when there is one
MayRun(c) == exclusive => lock = c

\* What the caller leaves unchanged
ConcUnchanged ==
  /\ UNCHANGED <<num_digits, num_hash_functions, bits_per_counter, B_basic, added,
                 B_before, last, afterInsert, net, residue, deletesOfPresent,
                 run, nops, exclusive>>
  /\ UNCHANGED <<fmVars, samplerVars, reservoirVars, hashVars, widthVars>>

\* Caller c calls insert_key(s, ...) or delete_key(s, ...)
Begin(c, op, s) ==
  /\ callers[c].pc = "idle"
  /\ ncalls < MaxCalls
  /\ exclusive => lock = 0
  /\ lock' = IF exclusive THEN c ELSE 0
  /\ callers' = [callers EXCEPT ![c] =
                   [pc |-> "read", op |-> op, key |-> s, nr |-> 1, counter |-> <<>>]]
  /\ ncalls' = ncalls + 1
  /\ UNCHANGED <<B, applied>>
  /\ ConcUnchanged

\* pos = h(s, num_digits=num_digits, nr=nr); counter = B[...]
ReadCounter(c) ==
  /\ callers[c].pc = "read"
  /\ MayRun(c)
  /\ LET pos == h(callers[c].key, num_digits, callers[c].nr)
     IN  callers' = [callers EXCEPT ![c].pc = "write",
                                    ![c].counter = read_counter(B, pos, bits_per_counter)]
  /\ UNCHANGED <<B, applied, lock, ncalls>>
  /\ ConcUnchanged

\* counter = update_counter(counter, ...); B[...] = counter; the next hash
\* function, or the end of the call when this was the last one or
\* update_counter raised
WriteCounter(c) ==
  /\ callers[c].pc = "write"
  /\ MayRun(c)
  /\ LET me == callers[c]
         pos == h(me.key, num_digits, me.nr)
         r == IF me.op = "insert"
              THEN update_counter(me.counter, bits_per_counter, "inc")
              ELSE update_counter(me.counter, bits_per_counter, "dec")
         done == r.err # "none" \/ me.nr = num_hash_functions
     IN  /\ B' = IF r.err # "none" THEN B
                 ELSE write_counter(B, pos, bits_per_counter, r.counter)
         /\ applied' = IF r.err # "none" THEN applied
                       ELSE [applied EXCEPT ![pos] =
                               IF me.op = "insert" THEN @ + 1 ELSE @ - 1]
         /\ callers' = [callers EXCEPT ![c] =
                          IF done THEN Idle
                          ELSE [me EXCEPT !.pc = "read", !.nr = me.nr + 1,
                                          !.counter = <<>>]]
         /\ lock' = IF done THEN 0 ELSE lock
  /\ UNCHANGED ncalls
  /\ ConcUnchanged

NextConcurrent ==
  \E c \in CallerIds :
    \/ \E s \in Keys : Begin(c, "insert", s) \/ Begin(c, "delete", s)
    \/ ReadCounter(c)
    \/ WriteCounter(c)

SpecConcurrent == InitConcurrent /\ [][NextConcurrent]_vars

\* ------------------------------------------------------------------ claims
Positions == 0..(num_buckets - 1)

\* The position whose update raised in the last call
FailPos == h(last.key, num_digits, last.nr)

\* The largest number of hash functions that map s to one position
MaxMult(s) ==
  LET ms == {Mult(s, p, num_hash_functions) : p \in Positions}
  IN  CHOOSE m \in ms : \A x \in ms : x <= m

\* Sum over the keys ks of net[k] * weight(k, p)
RECURSIVE NetWithMult(_, _)
NetWithMult(ks, p) ==
  IF ks = {} THEN 0
  ELSE LET k == CHOOSE x \in ks : TRUE
       IN  (IF net[k] = 0 THEN 0 ELSE net[k] * Mult(k, p, num_hash_functions))
           + NetWithMult(ks \ {k}, p)

RECURSIVE NetOfKeysAt(_, _)
NetOfKeysAt(ks, p) ==
  IF ks = {} THEN 0
  ELSE LET k == CHOOSE x \in ks : TRUE
       IN  (IF Mult(k, p, num_hash_functions) > 0 THEN net[k] ELSE 0)
           + NetOfKeysAt(ks \ {k}, p)

\* C1: basic filter, no false negatives: check_key is True for every key that
\* was passed to add_key, whatever the configuration and the order of the calls.
C1_NoFalseNegatives ==
  \A k \in added : check_key(k, B_basic, num_digits, num_hash_functions)

C1_Witness ==
  /\ Cardinality(added) >= 3
  /\ num_hash_functions >= 2
  /\ last.op = "add"
  /\ \A k \in added : check_key(k, B_basic, num_digits, num_hash_functions)
  /\ \E k \in BasicKeys \ added :
        ~check_key(k, B_basic, num_digits, num_hash_functions)

\* C2: insert_key is all-or-nothing: when it raises the overflow error, the
\* array is the one the call started with.
C2_InsertAllOrNothing ==
  (last.op = "insert" /\ last.err = "overflow") => B = B_before

\* C3: delete_key is all-or-nothing: when it raises the underflow error, the
\* array is the one the call started with.
C3_DeleteAllOrNothing ==
  (last.op = "delete" /\ last.err = "underflow") => B = B_before

\* no call that raised has left an update in the array
NothingLeftBehind == \A p \in Positions : residue[p] = 0

C5_CounterRange ==
  /\ Len(B) = num_buckets * bits_per_counter
  /\ \A i \in 1..Len(B) : B[i] \in {0, 1}
  /\ \A p \in Positions : Counter(B, p) \in 0..(2 ^ bits_per_counter - 1)
  /\ last.err = "overflow" =>
       /\ Counter(B, FailPos) = 2 ^ bits_per_counter - 1
       /\ Counter(B, FailPos) =
            Counter(B_before, FailPos) + Mult(last.key, FailPos, last.nr - 1)
  /\ last.err = "underflow" =>
       /\ Counter(B, FailPos) = 0
       /\ Counter(B, FailPos) =
            Counter(B_before, FailPos) - Mult(last.key, FailPos, last.nr - 1)

C5_Witness ==
  /\ last.err = "overflow"
  /\ last.nr >= 2
  /\ B # B_before
  /\ Counter(B, FailPos) = 2 ^ bits_per_counter - 1
  /\ bits_per_counter >= 2

\* C6 as stated: each counter is the sum, over the keys with a hash function
\* mapping them to the position, of successful inserts - successful deletes,
\* also for a key that two hash functions map to the position. It is read
\* here in the states where no raising call has left an update behind, so
\* that a violation does not rest on the partial updates of C2 and C3.
C6_CounterValue_PerKey ==
  NothingLeftBehind =>
    \A p \in Positions : Counter(B, p) = NetOfKeysAt(Keys, p)

\* C6 amended: each counter is the sum over the keys of (successful inserts -
\* successful deletes) times the number of hash functions mapping the key to
\* the position, plus the increments and minus the decrements that calls which
\* raised left at the position.
C6_CounterValue ==
  \A p \in Positions : Counter(B, p) = NetWithMult(Keys, p) + residue[p]

C6_Witness ==
  \E p \in Positions :
    /\ Mult("", p, num_hash_functions) >= 2
    /\ net[""] = 1
    /\ residue[p] # 0
    /\ Counter(B, p) = NetWithMult(Keys, p) + residue[p]
    /\ \E k \in Keys \ {""} : net[k] > 0

\* C7 as stated: from the empty filter, the n-th insert_key of one key succeeds
\* exactly when n <= 2^bits_per_counter - 1, and otherwise raises overflow.
C7_OverflowThreshold_AnyKey ==
  run \in Keys =>
    /\ (last.err = "none") <=> (nops <= 2 ^ bits_per_counter - 1)
    /\ last.err \in {"none", "overflow"}

\* C7 amended: from the empty filter, the n-th insert_key of one key succeeds
\* exactly when n <= (2^bits_per_counter - 1) \div m, m being the largest
\* number of the key's hash functions that share a position, and otherwise
\* raises overflow (m = 1, bits_per_counter = 3: the 8th insert raises).
C7_OverflowThreshold ==
  run \in Keys =>
    /\ (last.err = "none") <=> (nops <= (2 ^ bits_per_counter - 1) \div MaxMult(run))
    /\ last.err \in {"none", "overflow"}

C7_Witness ==
  /\ run = "bob@yahoo.com"
  /\ num_digits = 1 /\ num_hash_functions = 3 /\ bits_per_counter = 3
  /\ nops = 8
  /\ last.err = "overflow"
  /\ \A p \in {2, 5, 9} : Counter(B, p) = 7

\* successful inserts - successful deletes of the last call's key, before it
NetBefore == net[last.key] + (IF last.op = "delete" /\ last.err = "none" THEN 1 ELSE 0)

NoSharedCounter(s) ==
  \A k \in Keys \ {s} :
    net[k] > 0 =>
      \A n, m \in 1..num_hash_functions :
        h(k, num_digits, n) # h(s, num_digits, m)

\* C9: when s was absent and shares no counter with a present key,
\* check_key_counting(s) is True after insert_key(s) and False after the
\* delete_key(s) that follows it.
C9_DeleteThenQuery ==
  (last.op = "delete" /\ last.err = "none" /\ afterInsert
     /\ net[last.key] = 0 /\ NoSharedCounter(last.key))
    => /\ check_key_counting(last.key, B_before, num_digits, num_hash_functions)
       /\ ~check_key_counting(last.key, B, num_digits, num_hash_functions)

\* C10: bit p of the basic filter is 1 exactly when a key added so far hashes
\* to p under one of the hash functions 1..num_hash_functions; the array from
\* init_B is all 0.
C10_BitInvariant ==
  /\ Len(B_basic) = num_buckets
  /\ \A p \in Positions :
       (B_basic[p + 1] = 1) <=>
         \E k \in added : \E nr \in 1..num_hash_functions :
           h(k, num_digits, nr) = p
  /\ \A p \in Positions : B_basic[p + 1] \in {0, 1}
  /\ added = {} => B_basic = [i \in 1..num_buckets |-> 0]

C10_Witness ==
  /\ Cardinality(added) >= 2
  /\ \E p \in Positions : B_basic[p + 1] = 1
  /\ \E p \in Positions : B_basic[p + 1] = 0
  /\ \E k1, k2 \in added : \E n1, n2 \in 1..num_hash_functions :
       k1 # k2 /\ h(k1, num_digits, n1) = h(k2, num_digits, n2)

\* ------------------------------------------ claims: Flajolet-Martin counting
\* The number of trailing zero bits of x > 0 (below 10^8 < 2^27), by divisibility
TrailingZeroCount(x) ==
  CHOOSE r \in 0..27 : x % (2 ^ r) = 0 /\ x % (2 ^ (r + 1)) # 0

MaxOf(S) == CHOOSE m \in S : \A x \in S : x <= m

\* The line of key ip got as far as hash function j: every line does, but
\* the one that raised stopped at hash function last_ingest.i
Reached(ip, j) ==
  (last_ingest.err # "none" /\ last_ingest.ip = ip) => j < last_ingest.i

C12_DuplicateIdempotent == last_ingest.dup => Rs = Rs_before

\* A key was read again after another key, with some tracker positive
C12_Witness ==
  /\ last_ingest.dup
  /\ Cardinality(ips) >= 2
  /\ \E j \in 1..num_hashes : Rs[j] > 0

\* The trackers after reading each key of S once, starting from rs
RECURSIVE RsOnce(_, _)
RsOnce(S, rs) ==
  IF S = {} THEN rs
  ELSE LET ip == CHOOSE x \in S : TRUE
       IN  RsOnce(S \ {ip}, ingest(ip, rs, num_hashes).Rs)

\* The values 2^Rs[j] after reading each key read so far once
PowersOnce == np_power(2, RsOnce(ips, [j \in 1..num_hashes |-> 0]))

\* np.random.shuffle when it applies permutation p
Shuffled(pw, p) == [j \in 1..num_hashes |-> pw[p[j]]]

\* C13 as stated: the final estimate after a stream with repeated keys equals
\* the final estimate after its distinct keys read once each, whatever run of
\* the estimate computation produced either.
C13_EstimateInvariant_EveryRun ==
  (fm_pc = "estimated" /\ hadDup) =>
    LET pw == PowersOnce
    IN  \A p \in Permutations(1..num_hashes) :
          SameValue(final_estimate, mean_of_medians(Shuffled(pw, p), num_groups))

\* C13: the final estimate after a stream with repeated keys is one of the
\* values the estimate computation returns after the distinct keys read once
\* each: the one it returns under the same shuffle.
C13_EstimateInvariant ==
  (fm_pc = "estimated" /\ hadDup) =>
    LET pw == PowersOnce
    IN  \E p \in Permutations(1..num_hashes) :
          /\ estimates = Shuffled(pw, p)
          /\ SameValue(final_estimate,
                       mean_of_medians(Shuffled(pw, p), num_groups))

\* An estimate after repeated keys that another shuffle would not have given
C13_Witness ==
  /\ fm_pc = "estimated"
  /\ hadDup
  /\ LET pw == PowersOnce
     IN  \E p \in Permutations(1..num_hashes) :
           ~SameValue(final_estimate, mean_of_medians(Shuffled(pw, p), num_groups))

\* The k-th smallest value of a sequence, by rank
KthSmallest(a, k) ==
  CHOOSE v \in {a[i] : i \in DOMAIN a} :
    /\ Cardinality({i \in DOMAIN a : a[i] < v}) < k
    /\ Cardinality({i \in DOMAIN a : a[i] <= v}) >= k

\* Twice the median of the values est[from..to]
TwiceMedian(est, from, to) ==
  LET a == [i \in 1..(to - from + 1) |-> est[from + i - 1]]
      n == to - from + 1
  IN  KthSmallest(a, (n + 1) \div 2) + KthSmallest(a, n \div 2 + 1)

RECURSIVE SumTwiceMedians(_, _)
SumTwiceMedians(est, g) ==
  IF g = 0 THEN 0
  ELSE TwiceMedian(est, (g - 1) * num_samples_per_group + 1,
                   g * num_samples_per_group)
       + SumTwiceMedians(est, g - 1)

\* The mean over the num_groups consecutive blocks of num_samples_per_group
\* values of est of the median of each block
MeanOfBlockMedians(est) ==
  [num |-> SumTwiceMedians(est, num_groups), den |-> 2 * num_groups]

\* C14 as stated: the final estimate is the mean over the groups of the
\* median of 2^Rs[j] in each group, the groups being the fixed blocks of
\* num_samples_per_group consecutive trackers: a function of Rs alone.
C14_EstimateValue_FixedGroups ==
  fm_pc = "estimated" =>
    SameValue(final_estimate, MeanOfBlockMedians(np_power(2, Rs)))

\* C14: the final estimate is the mean over the groups of the median of each
\* group, the groups being the blocks of num_samples_per_group consecutive
\* values of the shuffled estimates, which are the values 2^Rs[j] in a random
\* order: a function of Rs and of the shuffle.
C14_EstimateValue ==
  fm_pc = "estimated" =>
    /\ \E p \in Permutations(1..num_hashes) :
         estimates = [j \in 1..num_hashes |-> 2 ^ Rs[p[j]]]
    /\ SameValue(final_estimate, MeanOfBlockMedians(estimates))

\* An estimate that the blocks of the unshuffled 2^Rs[j] do not give
C14_Witness ==
  /\ fm_pc = "estimated"
  /\ ~SameValue(final_estimate, MeanOfBlockMedians(np_power(2, Rs)))

\* C15: every line, whatever its key (one with a hash of 0 included), completes
\* the updates of all num_hashes trackers without raising.
C15_IngestNoErrorPath ==
  last_ingest.ip # NoKey => (last_ingest.err = "none" /\ fm_pc # "raised")

\* ------------------------------------------------ claims: sampling by key
\* The keys of the lines read so far, in stream order
RecordKeys == [i \in DOMAIN records |-> records[i].ip]

\* The keys that occur in the sample
SampledKeys == {SAMPLE[i] : i \in DOMAIN SAMPLE}

KeyIsSampled(ip) == ip \in SampledKeys

\* C17: for the fixed (a, b), any two lines with the same key got the same
\* decision, the decision h(key, b) < a; and the sample holds, in stream
\* order, all the lines of each key it holds at all.
C17_KeyedConsistency ==
  /\ \A i, j \in DOMAIN records :
       records[i].ip = records[j].ip => decisions[i] = decisions[j]
  /\ \A i \in DOMAIN records :
       decisions[i] = (h_buckets(records[i].ip, sample_b) < sample_a)
  /\ SAMPLE = SelectSeq(RecordKeys, KeyIsSampled)

\* A key was read at least twice and sampled, between lines of a key that
\* was not
C17_Witness ==
  /\ \E i, j \in DOMAIN records :
       /\ i < j
       /\ records[i].ip = records[j].ip
       /\ records[i].ts # records[j].ts
       /\ decisions[i]
       /\ \E m \in DOMAIN records : i < m /\ m < j /\ ~decisions[m]
  /\ Len(SAMPLE) >= 2

\* --------------------------------------------- claims: reservoir sampling
Min(x, y) == IF x <= y THEN x ELSE y

\* C18: after N items handled with capacity B, the reservoir has B slots, never
\* more; exactly min(N, B) of them hold sampled items, each an item of the
\* stream, and the others hold the placeholder.
C18_ReservoirSize ==
  LET N == Len(stream)
      filled == {p \in DOMAIN RESERVOIR : RESERVOIR[p] # Placeholder}
  IN  /\ Len(RESERVOIR) = B_reservoir
      /\ Cardinality(filled) = Min(N, B_reservoir)
      /\ \A p \in filled :
           /\ slots[p] \in 1..N
           /\ RESERVOIR[p] = stream[slots[p]]
      /\ \A p \in DOMAIN RESERVOIR \ filled : slots[p] = 0

\* More items than slots were handled, one was discarded and one replaced
\* an earlier item
C18_Witness ==
  /\ Len(stream) > B_reservoir
  /\ B_reservoir >= 2
  /\ last_item.msg = "discarded"
  /\ \E p \in DOMAIN slots : slots[p] > B_reservoir

\* C19: with T the number of the item handled last (1 for the first item): if
\* T <= B the item is in slot T-1; if T > B its random index was drawn from
\* exactly the T values 0..T-1, it overwrote slot p when the index p was below
\* B and was discarded otherwise, and to discard it was a possible outcome.
C19_ObserveStep ==
  LET T == last_item.t + 1
  IN  last_item.t >= 0 =>
        /\ T <= B_reservoir => (last_item.msg = "added" /\ slots[T] = T)
        /\ T > B_reservoir =>
             /\ last_item.range = 0..(T - 1)
             /\ last_item.pos < B_reservoir =>
                  (last_item.msg = "replaced" /\ slots[last_item.pos + 1] = T)
             /\ last_item.pos >= B_reservoir =>
                  (last_item.msg = "discarded" /\ \A p \in DOMAIN slots : slots[p] # T)
             /\ \E p \in last_item.range : p >= B_reservoir

\* The number of sequences of random draws after which item number i is in
\* the reservoir, and the number of all sequences
OutcomesWith(i) ==
  SumFn([s \in DOMAIN outcomes |->
           IF \E p \in DOMAIN s : s[p] = i THEN outcomes[s] ELSE 0],
        DOMAIN outcomes)

AllOutcomes == SumFn(outcomes, DOMAIN outcomes)

\* C20: after t >= B items handled, every one of the t items is in the
\* reservoir in the fraction B/t of all sequences of random draws.
C20_Uniformity ==
  LET t == Len(stream)
  IN  t >= B_reservoir =>
        \A i \in 1..t : OutcomesWith(i) * t = B_reservoir * AllOutcomes

\* ------------------------------------------- claims: round trip and repetition
\* C22: in every reachable state of the counting filter and for every key s,
\* if insert_key(s) succeeds then the delete_key(s) that follows it succeeds
\* and gives back the array as it was before the insert; a delete_key made
\* right after the successful insert_key of its key did not raise.
C22_RoundTrip ==
  /\ \A s \in Keys :
       LET ins == insert_key(s, B, num_digits, num_hash_functions, bits_per_counter)
           del == delete_key(s, ins.B, num_digits, num_hash_functions,
                             bits_per_counter)
       IN  ins.err = "none" => (del.err = "none" /\ del.B = B)
  /\ (afterInsert /\ last.op = "delete") => (last.err = "none" /\ last.nr = 0)

\* A delete_key right after the successful insert_key of its key, on a
\* filter that holds other keys
C22_Witness ==
  /\ afterInsert
  /\ last.op = "delete"
  /\ last.err = "none"
  /\ \E p \in Positions : Counter(B, p) > 0

\* The last call made once more, on the array b
SameCall(b) ==
  IF last.op = "insert"
  THEN insert_key(last.key, b, num_digits, num_hash_functions, bits_per_counter)
  ELSE delete_key(last.key, b, num_digits, num_hash_functions, bits_per_counter)

\* C23: when the last call raised, the same call made again, and again, raises
\* the same kind of error each time and leaves the same array each time.
C23_RepeatedFailure ==
  last.err # "none" =>
    LET first == SameCall(B)
        second == SameCall(first.B)
    IN  /\ first.err = last.err
        /\ second.err = last.err
        /\ second.B = first.B

\* --------------------------------------- claims: the basic filter as a set
\* The array after add_key of every key of S, in some order, starting from b
RECURSIVE AddAll(_, _)
AddAll(S, b) ==
  IF S = {} THEN b
  ELSE LET s == CHOOSE x \in S : TRUE
       IN  AddAll(S \ {s}, add_key(s, b, num_digits, num_hash_functions))

\* C29: the basic filter's array is the one that adding each added key once,
\* in one fixed order, gives; add_key of a key added before leaves it
\* unchanged, and add_key of any key leaves every 1 bit at 1.
C29_SetDependence ==
  /\ B_basic = AddAll(added, init_B(num_buckets))
  /\ \A s \in BasicKeys :
       LET after == add_key(s, B_basic, num_digits, num_hash_functions)
       IN  /\ \A i \in DOMAIN B_basic : B_basic[i] = 1 => after[i] = 1
           /\ s \in added => after = B_basic

\* Three keys were added, two of them sharing a bit
C29_Witness ==
  /\ Cardinality(added) >= 3
  /\ \E s1, s2 \in added :
       /\ s1 # s2
       /\ \E n1, n2 \in 1..num_hash_functions :
            h(s1, num_digits, n1) = h(s2, num_digits, n2)

\* ------------------------------------------------- claims: estimate bounds
\* C30: the final estimate is at least the smallest and at most the largest
\* of the values 2^Rs[j]; it is at least 1, and it is 1 when no key was read.
C30_EstimateBounds ==
  fm_pc = "estimated" =>
    LET pw == np_power(2, Rs)
        lo == CHOOSE v \in {pw[j] : j \in DOMAIN pw} : \A j \in DOMAIN pw : v <= pw[j]
        hi == CHOOSE v \in {pw[j] : j \in DOMAIN pw} : \A j \in DOMAIN pw : v >= pw[j]
    IN  /\ lo * final_estimate.den <= final_estimate.num
        /\ final_estimate.num <= hi * final_estimate.den
        /\ final_estimate.num >= final_estimate.den
        /\ ips = {} => final_estimate.num = final_estimate.den

\* An estimate strictly between the smallest and the largest 2^Rs[j]
C30_Witness ==
  /\ fm_pc = "estimated"
  /\ \E j \in DOMAIN Rs : 2 ^ Rs[j] * final_estimate.den < final_estimate.num
  /\ \E j \in DOMAIN Rs : final_estimate.num < 2 ^ Rs[j] * final_estimate.den

\* ------------------------------------ claims: sample without replacement
\* C26: every slot that holds an item holds an item of the stream handled so
\* far, no item number is in two slots, and the last call of handle_new_item
\* changed at most one slot.
C26_WithoutReplacement ==
  /\ \A p \in DOMAIN RESERVOIR :
       RESERVOIR[p] # Placeholder =>
         (slots[p] \in 1..Len(stream) /\ RESERVOIR[p] = stream[slots[p]])
  /\ \A p, q \in DOMAIN slots : (p # q /\ slots[p] # 0) => slots[p] # slots[q]
  /\ last_item.t >= 0 =>
       Cardinality({p \in DOMAIN slots : slots[p] # last_item.before[p]}) <= 1

\* A full reservoir whose last item replaced another, with the same letter in
\* two slots
C26_Witness ==
  /\ Len(stream) > B_reservoir
  /\ last_item.msg = "replaced"
  /\ \E p, q \in DOMAIN RESERVOIR : p # q /\ RESERVOIR[p] = RESERVOIR[q]

\* ------------------------------------------ claims: addressing and refinement
\* The keys the filters are asked about
AllKeys == Keys \cup BasicKeys

\* C21: for every key and every hash function nr in 1..num_hash_functions,
\* h(s, num_digits, nr) is in 0..num_buckets-1, the bit add_key/check_key use
\* is a bit of the basic array, and the slice [pos*c, pos*c + c) that
\* update_key/check_key_counting use lies inside the counting array, whose
\* length stays num_buckets*c.
C21_InBounds ==
  /\ Len(B_basic) = num_buckets
  /\ Len(B) = num_buckets * bits_per_counter
  /\ \A s \in AllKeys : \A nr \in 1..num_hash_functions :
       LET pos == h(s, num_digits, nr)
       IN  /\ pos >= 0
           /\ pos < num_buckets
           /\ pos + 1 \in DOMAIN B_basic
           /\ pos * bits_per_counter + bits_per_counter <= Len(B)
           /\ Len(Slice(B, pos * bits_per_counter,
                        pos * bits_per_counter + bits_per_counter))
                = bits_per_counter

\* A key was inserted whose last bucket is the last one of the arrays
C21_Witness ==
  /\ last.op = "insert"
  /\ last.err = "none"
  /\ h(last.key, num_digits, num_hash_functions) = num_buckets - 1
  /\ B_basic[num_buckets] = 1
  /\ Counter(B, num_buckets - 1) > 0

\* No insert_key so far raised: every call counted in nops is counted in net
RECURSIVE SumNet(_)
SumNet(S) ==
  IF S = {} THEN 0
  ELSE LET k == CHOOSE x \in S : TRUE IN net[k] + SumNet(S \ {k})

NoOverflowSoFar == nops = SumNet(Keys)

\* C27: while the same keys have gone into both filters and no insert_key has
\* raised, counter p is positive exactly when bit p is 1, and
\* check_key_counting and check_key give the same answer for every key.
C27_Refinement ==
  NoOverflowSoFar =>
    /\ \A p \in Positions : (Counter(B, p) > 0) <=> (B_basic[p + 1] = 1)
    /\ \A s \in AllKeys :
         check_key_counting(s, B, num_digits, num_hash_functions)
           = check_key(s, B_basic, num_digits, num_hash_functions)

\* Two keys are in both filters, one key asked about is found in both and
\* another in neither
C27_Witness ==
  /\ NoOverflowSoFar
  /\ Cardinality(added) >= 2
  /\ \E p \in Positions : Counter(B, p) >= 2
  /\ \E s \in AllKeys \ added :
       check_key(s, B_basic, num_digits, num_hash_functions)
  /\ \E s \in AllKeys :
       ~check_key(s, B_basic, num_digits, num_hash_functions)

\* ------------------------------------------------ claims: the hash family
\* C25: there are keys s # s' and indices i # j with s repeated i times equal
\* to s' repeated j times; two calls of h for such a pair, with the same
\* num_digits, return the same value; and two calls for the empty key with
\* the same num_digits return the same value whatever nr is.
C25_HashCorrelation ==
  /\ \E s1, s2 \in HashKeys : \E i, j \in 1..MaxHash :
       s1 # s2 /\ i # j /\ Repeat(s1, i) = Repeat(s2, j)
  /\ (/\ h_prev.nr > 0
      /\ h_prev.nd = h_last.nd
      /\ Repeat(h_prev.s, h_prev.nr) = Repeat(h_last.s, h_last.nr))
       => h_prev.v = h_last.v
  /\ (/\ h_prev.nr > 0
      /\ h_prev.nd = h_last.nd
      /\ h_prev.s = ""
      /\ h_last.s = "")
       => h_prev.v = h_last.v

\* h('a', num_digits=8, nr=2) and then h('aa', num_digits=8, nr=1), with
\* one value
C25_Witness ==
  /\ h_prev.s = "a"
  /\ h_prev.nr = 2
  /\ h_last.s = "aa"
  /\ h_last.nr = 1
  /\ h_prev.nd = 8
  /\ h_last.nd = 8
  /\ h_prev.v = h_last.v

\* -------------------------------------------- claims: the width of the query
\* C28: a check_key_counting(s) made right after a successful insert_key(s)
\* on a filter built and updated with c bits per counter returns True,
\* whatever the global bits_per_counter is.
C28_QueryReadsUpdatedSlots ==
  (/\ answer.key # NoKey
   /\ answer.key = last.key
   /\ last.op = "insert"
   /\ last.err = "none")
    => answer.result = "True"

\* ------------------------------------------------ claims: two callers
\* C24: when each whole call runs in one critical section, every counter is
\* the number of increments written to it less the decrements written to it
\* (and at most one caller is inside a call); without the critical section a
\* state is reachable in which two callers read the same counter before
\* either wrote it and one update is lost (C24_Witness).
C24_CriticalSection ==
  exclusive =>
    /\ \A p \in Positions : Counter(B, p) = applied[p]
    /\ Cardinality({c \in CallerIds : callers[c].pc # "idle"}) <= 1

\* Both calls have returned and a counter is not what was written to it:
\* an update was lost
C24_Witness ==
  /\ ~exclusive
  /\ \A c \in CallerIds : callers[c].pc = "idle"
  /\ \E p \in Positions : Counter(B, p) # applied[p]
====
